---- MODULE Spec2Model ----
(***************************************************************************)
(* Model of the expression simplification engine of dsl/var.py: the        *)
(* Language registry and its validate(), the node classes (VarBool,        *)
(* VarInt, VarName, VarNull, VarNot, VarAnd, VarOr, VarAdd, VarSub,        *)
(* VarMul, VarDiv), the structural key, the operator dispatcher, the logic *)
(* and the arithmetic simplifier and the validation of variable names;     *)
(* of the Make function nodes of dsl/make/var.py; and of the Kconfig       *)
(* binding of dsl/kconfig/var.py on the engine of dsl/core/var.py.         *)
(*                                                                         *)
(* A node is a record carrying its TYPE tag, the dialect (Language) its    *)
(* class is bound to, and its payload.  key() is a tuple, as in the code.  *)
(***************************************************************************)
EXTENDS Integers, Sequences, FiniteSets, TLC

VARIABLES a, b, out

vars == <<a, b, out>>

(***************************************************************************)
(* Bounds of the model.                                                    *)
(***************************************************************************)
\* largest total size (len(a) + len(b)) of the two live operator results
MaxLen == 9
\* largest total size of the two live directly constructed trees
MaxRawLen == 6
\* largest total size of the two live expressions of mixed dialects
MaxMixLen == 4
\* largest total size of the two live arithmetic expressions
MaxArithLen == 4
\* largest absolute value of an Int constant, literal or computed
MaxInt == 2
\* largest total size of the two live expressions of the incomplete dialect
MaxPartialLen == 6
\* longest argument expression held while Make function nodes are built
MaxFuncLen == 3
\* longest variable name, in characters
MaxNameLen == 5
\* longest name text passed to the Name constructor by the client
MaxInputLen == 2
\* largest total size of the two live Kconfig expressions
MaxKconfigLen == 4
\* longest Make expression the client of the Make binding holds
MaxMakeLen == 9

(***************************************************************************)
(* Dialects.  Language(l) is the descriptor table of dialect l: for every  *)
(* slot of LanguageTypes / LanguageOps, whether a class is bound to it.    *)
(* "K" is a logic-only dialect, "M" a logic dialect with a Null type, "A"   *)
(* a dialect with an Int type and the four arithmetic operators, and "P" a *)
(* dialect whose registration stopped before its Bool class was defined.   *)
(* "Make" is the table the class statements of dsl/make/var.py fill when   *)
(* their generic argument is a Language instance: MNull, MVar, MNot, MAnd, *)
(* MOr and MAdd register themselves, MConst (a VarConst) does not.         *)
(***************************************************************************)
Dialects == {"K", "M", "A", "P", "Make"}

LanguageTypes(l) ==
    [Bool |-> (l \notin {"P", "Make"}), Name |-> TRUE, Null |-> (l \in {"M", "Make"}),
     Int |-> (l = "A"), String |-> FALSE]

LanguageOps(l) ==
    [Not |-> TRUE, And |-> TRUE, Or |-> TRUE,
     Add |-> (l \in {"A", "Make"}), Sub |-> (l = "A"), Mul |-> (l = "A"), Div |-> (l = "A")]

Language(l) == [name |-> l, types |-> LanguageTypes(l), ops |-> LanguageOps(l)]

\* the binary operators of VarExpr and the LanguageOps slot each one passes
BinOps == {"And", "Or", "Add", "Sub", "Mul", "Div"}
ArithOps == {"Add", "Sub", "Mul", "Div"}

\* the TYPE tag of the class bound to an ops slot
OpType(op) ==
    CASE op = "And" -> "and" [] op = "Or" -> "or" [] op = "Add" -> "add"
      [] op = "Sub" -> "sub" [] op = "Mul" -> "mul" [] op = "Div" -> "div"

(***************************************************************************)
(* Node constructors.                                                      *)
(***************************************************************************)
Names == {"x", "y", "z"}

VarBool(l, v) == [type |-> "bool", lang |-> l, value |-> v]
VarName(l, n) == [type |-> "name", lang |-> l, name |-> n]
VarNull(l) == [type |-> "null", lang |-> l]
VarInt(l, v) == [type |-> "int", lang |-> l, value |-> v]
VarUnaryOp(t, l, ch) == [type |-> t, lang |-> l, child |-> ch]
VarBinaryOp(t, l, lt, rt) == [type |-> t, lang |-> l, left |-> lt, right |-> rt]
VarNot(l, ch) == VarUnaryOp("not", l, ch)
VarAnd(l, lt, rt) == VarBinaryOp("and", l, lt, rt)
VarOr(l, lt, rt) == VarBinaryOp("or", l, lt, rt)
VarAdd(l, lt, rt) == VarBinaryOp("add", l, lt, rt)
VarSub(l, lt, rt) == VarBinaryOp("sub", l, lt, rt)
VarMul(l, lt, rt) == VarBinaryOp("mul", l, lt, rt)
VarDiv(l, lt, rt) == VarBinaryOp("div", l, lt, rt)

resolve_language(e) == e.lang

\* isTrue without the test of the value
isTrue_anyBool(e) == e.type = "bool"

isTrue(e) == e.type = "bool" /\ e.value = TRUE

isFalse(e) == e.type = "bool" /\ e.value = FALSE
true(l) == VarBool(l, TRUE)
false(l) == VarBool(l, FALSE)

IsUnary(e) == e.type = "not"
IsBinary(e) == e.type \in {"and", "or", "add", "sub", "mul", "div"}

\* the leaves of dialect l: its names and its two Bool constants
Leaves(l) == {VarName(l, n) : n \in Names} \cup {VarBool(l, v) : v \in BOOLEAN}

(***************************************************************************)
(* Structural API: key() = (TYPE, *args()), __len__ = 1 + sum of children. *)
(***************************************************************************)
RECURSIVE key(_)
key(e) ==
    CASE e.type = "bool" -> <<"bool", e.value>>
      [] e.type = "int" -> <<"int", e.value>>
      [] e.type = "name" -> <<"name", e.name>>
      [] e.type = "null" -> <<"null">>
      [] IsUnary(e) -> <<e.type, key(e.child)>>
      [] IsBinary(e) -> <<e.type, key(e.left), key(e.right)>>

RECURSIVE len(_)
len(e) ==
    CASE IsUnary(e) -> 1 + len(e.child)
      [] IsBinary(e) -> 1 + len(e.right) + len(e.left)
      [] OTHER -> 1

\* VarExpr.__eq__
Eq(e, f) == key(e) = key(f)

(***************************************************************************)
(* The order of keys: Python compares the tuples element by element, the   *)
(* TYPE strings and the names as strings, False before True.               *)
(***************************************************************************)
TypeOrder == <<"add", "and", "bool", "div", "int", "mul", "name", "not",
               "null", "or", "string", "sub">>
NameOrder == <<"x", "y", "z">>

Rank(order, s) == CHOOSE i \in 1..Len(order) : order[i] = s

RECURSIVE KeyLess(_, _)
KeyLess(k1, k2) ==
    IF k1[1] # k2[1] THEN Rank(TypeOrder, k1[1]) < Rank(TypeOrder, k2[1])
    ELSE CASE k1[1] = "bool" -> (k1[2] = FALSE /\ k2[2] = TRUE)
           [] k1[1] = "int" -> k1[2] < k2[2]
           [] k1[1] = "name" -> Rank(NameOrder, k1[2]) < Rank(NameOrder, k2[2])
           [] k1[1] = "null" -> FALSE
           [] k1[1] = "not" -> KeyLess(k1[2], k2[2])
           [] OTHER -> IF k1[2] # k2[2] THEN KeyLess(k1[2], k2[2])
                       ELSE KeyLess(k1[3], k2[3])

\* sorted(terms, key=lambda e: e.key()): a stable insertion sort
RECURSIVE Insert(_, _)
Insert(s, e) ==
    IF s = <<>> THEN <<e>>
    ELSE IF KeyLess(key(e), key(s[Len(s)])) THEN Append(Insert(SubSeq(s, 1, Len(s) - 1), e), s[Len(s)])
    ELSE Append(s, e)

\* rebuild without the sort: the terms in flattening order
sorted_flattenOrder(s) == s

RECURSIVE sorted(_)
sorted(s) == IF s = <<>> THEN <<>> ELSE Insert(sorted(SubSeq(s, 1, Len(s) - 1)), s[Len(s)])

KeySet(s) == {key(s[i]) : i \in 1..Len(s)}

(***************************************************************************)
(* Outcome of an operator call: the exception raised ("none" when the call *)
(* returns), the node returned (None when it raises) and the calls made on *)
(* the operands, in order.                                                 *)
(***************************************************************************)
None == [type |-> "None"]
NoExc == "none"
ErrDifferentLanguage == "TypeError: Cannot combine expressions with different Language instances"
ErrMismatchedBinary == "TypeError: Mismatched Language in binary operator"
ErrMismatchedUnary == "TypeError: Mismatched Language in unary operator"
ErrNoOperator == "TypeError: This language does not define this operator"
ErrNoNot == "TypeError: This language does not define logical NOT"

Raise(msg, tr) == [exc |-> msg, ret |-> None, trace |-> tr]
Return(node, tr) == [exc |-> NoExc, ret |-> node, trace |-> tr]

\* VarBinaryOp.__init__ of a class of dialect l: does it accept the children
VarBinaryOp_init(l, lt, rt) == l = resolve_language(lt) /\ l = resolve_language(rt)

\* VarUnaryOp.__init__ of a class of dialect l: does it accept the child
VarUnaryOp_init(l, ch) == l = resolve_language(ch)

\* _check_same_ops without the comparison of the two Language instances
_check_same_ops_noCheck(lhs, rhs) == TRUE

\* VarExpr._check_same_ops: does the call pass (TRUE) or raise (FALSE)
_check_same_ops(lhs, rhs) == resolve_language(lhs) = resolve_language(rhs)

\* VarBinaryOp.is_negation_pair
is_negation_pair(x, y) ==
    LET ak == key(x)
        bk == key(y)
    IN  ak = <<"not", bk>> \/ bk = <<"not", ak>>

\* VarBinaryOp.rebuild_sorted; every term of a tree has the tree's dialect
\* (the constructors enforce it), so the mixed-Language check never raises
RECURSIVE FoldLeft(_, _, _)
FoldLeft(t, acc, rest) ==
    IF rest = <<>> THEN acc
    ELSE FoldLeft(t, VarBinaryOp(t, acc.lang, acc, Head(rest)), Tail(rest))

rebuild_sorted(terms, empty_val, t) ==
    IF terms = <<>> THEN empty_val
    ELSE IF Len(terms) = 1 THEN terms[1]
    ELSE LET terms_sorted == sorted(terms)
         IN  FoldLeft(t, Head(terms_sorted), Tail(terms_sorted))

\* walk() of _flatten_terms: the terms of a chain of t nodes, left to right
RECURSIVE walk(_, _)
walk(t, e) == IF e.type = t THEN walk(t, e.left) \o walk(t, e.right) ELSE <<e>>

\* add() of VarAnd._flatten_terms, applied to the walked terms in order
RECURSIVE VarAnd_add(_, _)
VarAnd_add(items, todo) ==
    IF todo = <<>> THEN items
    ELSE LET e == Head(todo)
             bt == Language(e.lang).types.Bool
         IN  IF bt /\ isTrue(e) THEN VarAnd_add(items, Tail(todo))
             ELSE IF key(e) \notin KeySet(items) THEN VarAnd_add(Append(items, e), Tail(todo))
             ELSE VarAnd_add(items, Tail(todo))

VarAnd_flatten_terms(x, y) == VarAnd_add(<<>>, walk("and", x) \o walk("and", y))

VarAnd_detect_contradiction(self, terms) ==
    IF ~Language(self.lang).types.Bool THEN None
    ELSE LET keys == KeySet(terms)
         IN  IF \E i \in 1..Len(terms) :
                    \/ terms[i].type = "not" /\ key(terms[i].child) \in keys
                    \/ terms[i].type # "not" /\ <<"not", key(terms[i])>> \in keys
             THEN false(self.lang)
             ELSE None

\* absorption dropping every Or term, whatever its children
VarAnd_absorption_with_or_anyOr(terms) ==
    IF terms = <<>> THEN terms
    ELSE LET kept(t) == ~(t.type = "or")
         IN  SelectSeq(terms, kept)

VarAnd_absorption_with_or(terms) ==
    IF terms = <<>> THEN terms
    ELSE LET base == KeySet(terms)
             kept(t) == ~(t.type = "or" /\ (key(t.left) \in base \/ key(t.right) \in base))
         IN  SelectSeq(terms, kept)

VarAnd_negated_absorption_with_or(terms) ==
    IF Len(terms) <= 1 THEN terms
    ELSE LET base_pos == {key(terms[i]) : i \in {j \in 1..Len(terms) : terms[j].type # "not"}}
             base_neg == {key(terms[i].child) : i \in {j \in 1..Len(terms) : terms[j].type = "not"}}
             repl(t) ==
                 IF t.type = "or"
                 THEN LET l == t.left
                          r == t.right
                      IN  IF l.type = "not" /\ key(l.child) \in base_pos THEN r
                          ELSE IF r.type = "not" /\ key(r.child) \in base_pos THEN l
                          ELSE IF key(l) \in base_neg THEN r
                          ELSE IF key(r) \in base_neg THEN l
                          ELSE t
                 ELSE t
             new_terms == [i \in 1..Len(terms) |-> repl(terms[i])]
         IN  new_terms

\* the dual helpers of VarOr
RECURSIVE VarOr_add(_, _)
VarOr_add(items, todo) ==
    IF todo = <<>> THEN items
    ELSE LET e == Head(todo)
             bt == Language(e.lang).types.Bool
         IN  IF bt /\ isFalse(e) THEN VarOr_add(items, Tail(todo))
             ELSE IF key(e) \notin KeySet(items) THEN VarOr_add(Append(items, e), Tail(todo))
             ELSE VarOr_add(items, Tail(todo))

VarOr_flatten_terms(x, y) == VarOr_add(<<>>, walk("or", x) \o walk("or", y))

VarOr_detect_tautology(self, terms) ==
    IF ~Language(self.lang).types.Bool THEN None
    ELSE LET keys == KeySet(terms)
         IN  IF \E i \in 1..Len(terms) :
                    \/ terms[i].type = "not" /\ key(terms[i].child) \in keys
                    \/ terms[i].type # "not" /\ <<"not", key(terms[i])>> \in keys
             THEN true(self.lang)
             ELSE None

VarOr_absorption_with_and(terms) ==
    IF terms = <<>> THEN terms
    ELSE LET base == KeySet(terms)
             kept(t) == ~(t.type = "and" /\ (key(t.left) \in base \/ key(t.right) \in base))
         IN  SelectSeq(terms, kept)

VarOr_negated_absorption_with_and(terms) ==
    IF Len(terms) <= 1 THEN terms
    ELSE LET base_pos == {key(terms[i]) : i \in {j \in 1..Len(terms) : terms[j].type # "not"}}
             base_neg == {key(terms[i].child) : i \in {j \in 1..Len(terms) : terms[j].type = "not"}}
             repl(t) ==
                 IF t.type = "and"
                 THEN LET l == t.left
                          r == t.right
                      IN  IF l.type = "not" /\ key(l.child) \in base_pos THEN r
                          ELSE IF r.type = "not" /\ key(r.child) \in base_pos THEN l
                          ELSE IF key(l) \in base_neg THEN r
                          ELSE IF key(r) \in base_neg THEN l
                          ELSE t
                 ELSE t
             new_terms == [i \in 1..Len(terms) |-> repl(terms[i])]
         IN  new_terms

(***************************************************************************)
(* Helpers of the arithmetic classes.  An "integer constant" is a VarConst *)
(* whose value is a Python int, which a bool is too: True counts as 1 and  *)
(* False as 0.                                                             *)
(***************************************************************************)
\* isinstance(t, VarConst) and isinstance(t.value, int)
IsIntConst(e) == e.type \in {"bool", "int"}

\* t.value, as the integer Python computes with
IntValue(e) == IF e.type = "bool" THEN (IF e.value THEN 1 ELSE 0) ELSE e.value

\* const_type(v) for the class of TYPE t: VarBool.__init__ stores bool(v),
\* VarInt.__init__ stores int(v)
NewConst(t, l, v) == IF t = "bool" THEN VarBool(l, v # 0) ELSE VarInt(l, v)

\* Python's // and divmod on integers, y # 0
FloorDiv(x, y) == IF y > 0 THEN x \div y ELSE (0 - x) \div (0 - y)
Rem(x, y) == x - y * FloorDiv(x, y)

\* VarAdd._extract_coeff_base: <<coefficient constant, base>>
_extract_coeff_base(term) ==
    IF term.type # "mul" THEN <<None, None>>
    ELSE IF IsIntConst(term.left) THEN <<term.left, term.right>>
    ELSE IF IsIntConst(term.right) THEN <<term.right, term.left>>
    ELSE <<None, None>>

\* the (empty) accumulators of VarAdd._collect_linear_terms; linear_terms is
\* the dict, as the sequence of its items [k, coeff, coeff_type, base]
NoLinearTerms ==
    [const_type |-> "None", const_sum |-> 0, linear_terms |-> <<>>, others |-> <<>>]

\* VarAdd._collect_linear_terms: the loop over the terms
RECURSIVE _collect_linear_terms(_, _)
_collect_linear_terms(acc, terms) ==
    IF terms = <<>> THEN acc
    ELSE LET t == Head(terms)
             rest == Tail(terms)
             lt == acc.linear_terms
             found(k) == {i \in 1..Len(lt) : lt[i].k = k}
             cb == _extract_coeff_base(t)
             bare ==
                 LET base_key == key(t)
                     prev == found(base_key)
                 IN  IF prev = {}
                     THEN [acc EXCEPT !.linear_terms =
                               Append(lt, [k |-> base_key, coeff |-> 1, coeff_type |-> "None", base |-> t])]
                     ELSE LET i == CHOOSE j \in prev : TRUE
                          IN  [acc EXCEPT !.linear_terms[i].coeff = @ + 1]
         IN  IF IsIntConst(t)
             THEN IF acc.const_type = "None"
                  THEN _collect_linear_terms(
                           [acc EXCEPT !.const_type = t.type, !.const_sum = @ + IntValue(t)], rest)
                  ELSE IF t.type = acc.const_type
                  THEN _collect_linear_terms([acc EXCEPT !.const_sum = @ + IntValue(t)], rest)
                  ELSE _collect_linear_terms([acc EXCEPT !.others = Append(@, t)], rest)
             ELSE IF t.type = "mul" /\ cb[1] # None
             THEN LET base_key == key(cb[2])
                      coeff == IntValue(cb[1])
                      prev == found(base_key)
                  IN  IF prev = {}
                      THEN _collect_linear_terms(
                               [acc EXCEPT !.linear_terms =
                                    Append(lt, [k |-> base_key, coeff |-> coeff,
                                                coeff_type |-> cb[1].type, base |-> cb[2]])], rest)
                      ELSE LET i == CHOOSE j \in prev : TRUE
                           IN  IF lt[i].coeff_type = cb[1].type \/ lt[i].coeff_type = "None"
                               THEN _collect_linear_terms(
                                        [acc EXCEPT !.linear_terms[i].coeff = @ + coeff,
                                                    !.linear_terms[i].coeff_type = cb[1].type], rest)
                               ELSE _collect_linear_terms([acc EXCEPT !.others = Append(@, t)], rest)
             ELSE _collect_linear_terms(bare, rest)

\* sorted(linear_terms.items(), key=lambda item: item[0])
RECURSIVE InsertItem(_, _)
InsertItem(s, it) ==
    IF s = <<>> THEN <<it>>
    ELSE IF KeyLess(it.k, s[Len(s)].k) THEN Append(InsertItem(SubSeq(s, 1, Len(s) - 1), it), s[Len(s)])
    ELSE Append(s, it)

RECURSIVE sorted_items(_)
sorted_items(s) ==
    IF s = <<>> THEN <<>> ELSE InsertItem(sorted_items(SubSeq(s, 1, Len(s) - 1)), s[Len(s)])

\* acc = base; for _ in range(n): acc = add_cls(acc, base)
RECURSIVE RepeatAdd(_, _, _)
RepeatAdd(acc, base, n) ==
    IF n <= 0 THEN acc ELSE RepeatAdd(VarAdd(base.lang, acc, base), base, n - 1)

\* VarMul._collect_constant_factor: the loop over the factors
RECURSIVE _collect_constant_factor(_, _)
_collect_constant_factor(acc, factors) ==
    IF factors = <<>> THEN acc
    ELSE LET f == Head(factors)
             rest == Tail(factors)
         IN  IF IsIntConst(f) /\ acc.const_type = "None"
             THEN _collect_constant_factor(
                      [acc EXCEPT !.const_type = f.type, !.const_prod = @ * IntValue(f)], rest)
             ELSE IF IsIntConst(f) /\ f.type = acc.const_type
             THEN _collect_constant_factor([acc EXCEPT !.const_prod = @ * IntValue(f)], rest)
             ELSE _collect_constant_factor([acc EXCEPT !.non_const = Append(@, f)], rest)

NoConstantFactor == [const_type |-> "None", const_prod |-> 1, non_const |-> <<>>]

(***************************************************************************)
(* simplify() of every node class, the operator dispatcher and ~.          *)
(***************************************************************************)
RECURSIVE simplify(_)
RECURSIVE _dispatch_binop(_, _, _)

\* the last line of _dispatch_binop, op_cls(lhs, rhs).simplify(), given the
\* simplified operands; VarBinaryOp.__init__ raises on mismatched operands
op_cls(op, lang, sl, sr) ==
    IF ~VarBinaryOp_init(lang, sl, sr)
    THEN Raise(ErrMismatchedBinary,
               <<"_check_same_ops", "lhs.simplify", "rhs.simplify", "op_cls">>)
    ELSE Return(simplify(VarBinaryOp(OpType(op), lang, sl, sr)),
                <<"_check_same_ops", "lhs.simplify", "rhs.simplify", "op_cls", "simplify">>)

\* the dispatcher with the test of the operator slot made before the Null
\* short-circuit
_dispatch_binop_opTestFirst(lhs, rhs, op) ==
    IF ~_check_same_ops(lhs, rhs)
    THEN Raise(ErrDifferentLanguage, <<"_check_same_ops">>)
    ELSE IF ~Language(lhs.lang).ops[op]
    THEN Raise(ErrNoOperator, <<"_check_same_ops">>)
    ELSE IF Language(lhs.lang).types.Null /\ lhs.type = "null" /\ rhs.type = "null"
    THEN Return(VarNull(lhs.lang), <<"_check_same_ops">>)
    ELSE IF Language(lhs.lang).types.Null /\ lhs.type = "null"
    THEN Return(simplify(rhs), <<"_check_same_ops", "rhs.simplify">>)
    ELSE IF Language(lhs.lang).types.Null /\ rhs.type = "null"
    THEN Return(simplify(lhs), <<"_check_same_ops", "lhs.simplify">>)
    ELSE op_cls(op, lhs.lang, simplify(lhs), simplify(rhs))

\* the dispatcher without the test of an unbound operator slot
_dispatch_binop_noOpTest(lhs, rhs, op) ==
    IF ~_check_same_ops(lhs, rhs)
    THEN Raise(ErrDifferentLanguage, <<"_check_same_ops">>)
    ELSE Return(VarBinaryOp(OpType(op), lhs.lang, simplify(lhs), simplify(rhs)),
                <<"_check_same_ops", "lhs.simplify", "rhs.simplify", "op_cls">>)

\* VarExpr._dispatch_binop(lhs, rhs, op_cls), op naming the ops slot passed
_dispatch_binop(lhs, rhs, op) ==
    IF ~_check_same_ops(lhs, rhs)
    THEN Raise(ErrDifferentLanguage, <<"_check_same_ops">>)
    ELSE LET types == Language(lhs.lang).types
             lhs_is_null == lhs.type = "null"
             rhs_is_null == rhs.type = "null"
         IN  IF types.Null /\ lhs_is_null /\ rhs_is_null
             THEN Return(VarNull(lhs.lang), <<"_check_same_ops">>)
             ELSE IF types.Null /\ lhs_is_null
             THEN Return(simplify(rhs), <<"_check_same_ops", "rhs.simplify">>)
             ELSE IF types.Null /\ rhs_is_null
             THEN Return(simplify(lhs), <<"_check_same_ops", "lhs.simplify">>)
             ELSE IF ~Language(lhs.lang).ops[op]
             THEN Raise(ErrNoOperator, <<"_check_same_ops">>)
             ELSE op_cls(op, lhs.lang, simplify(lhs), simplify(rhs))

\* VarExpr.__and__ / __or__ between two nodes of one dialect
__and__(self, other) == _dispatch_binop(self, other, "And").ret
__or__(self, other) == _dispatch_binop(self, other, "Or").ret

\* VarNot.simplify with De Morgan over And only
VarNot_simplify_andOnly(self) ==
    LET ch == self.child
        bool_type == Language(self.lang).types.Bool
    IN  IF bool_type /\ isTrue(ch) THEN false(self.lang)
        ELSE IF bool_type /\ isFalse(ch) THEN true(self.lang)
        ELSE IF ch.type = "not" THEN ch.child
        ELSE IF ch.type = "and"
        THEN simplify(__or__(VarNot(self.lang, ch.left), VarNot(self.lang, ch.right)))
        ELSE VarNot(self.lang, ch)

\* VarNot.simplify without the negation of the Bool constants
VarNot_simplify_keepsConst(self) ==
    LET ch == self.child
    IN  IF ch.type = "not" THEN ch.child
        ELSE IF ch.type = "and"
        THEN simplify(__or__(VarNot(self.lang, ch.left), VarNot(self.lang, ch.right)))
        ELSE IF ch.type = "or"
        THEN simplify(__and__(VarNot(self.lang, ch.left), VarNot(self.lang, ch.right)))
        ELSE VarNot(self.lang, ch)

VarNot_simplify(self) ==
    LET ch == self.child
        bool_type == Language(self.lang).types.Bool
    IN  IF bool_type /\ isTrue(ch) THEN false(self.lang)
        ELSE IF bool_type /\ isFalse(ch) THEN true(self.lang)
        ELSE IF ch.type = "not" THEN ch.child
        ELSE IF ch.type = "and"
        THEN simplify(__or__(VarNot(self.lang, ch.left), VarNot(self.lang, ch.right)))
        ELSE IF ch.type = "or"
        THEN simplify(__and__(VarNot(self.lang, ch.left), VarNot(self.lang, ch.right)))
        ELSE VarNot(self.lang, ch)

VarAnd_simplify(self) ==
    LET left == self.left
        right == self.right
        bool_type == Language(self.lang).types.Bool
    IN  IF bool_type /\ (isFalse(left) \/ isFalse(right)) THEN false(self.lang)
        ELSE IF bool_type /\ isTrue(left) THEN right
        ELSE IF bool_type /\ isTrue(right) THEN left
        ELSE IF key(left) = key(right) THEN left
        ELSE IF is_negation_pair(left, right) /\ bool_type THEN false(self.lang)
        ELSE LET terms == VarAnd_flatten_terms(left, right)
                 early == VarAnd_detect_contradiction(self, terms)
             IN  IF early # None THEN early
                 ELSE LET terms2 == VarAnd_negated_absorption_with_or(VarAnd_absorption_with_or(terms))
                      IN  IF ~bool_type THEN rebuild_sorted(terms2, self, "and")
                          ELSE rebuild_sorted(terms2, true(self.lang), "and")

VarOr_simplify(self) ==
    LET left == self.left
        right == self.right
        bool_type == Language(self.lang).types.Bool
    IN  IF bool_type /\ (isTrue(left) \/ isTrue(right)) THEN true(self.lang)
        ELSE IF bool_type /\ isFalse(left) THEN right
        ELSE IF bool_type /\ isFalse(right) THEN left
        ELSE IF key(left) = key(right) THEN left
        ELSE IF is_negation_pair(left, right) /\ bool_type THEN true(self.lang)
        ELSE LET terms == VarOr_flatten_terms(left, right)
                 early == VarOr_detect_tautology(self, terms)
             IN  IF early # None THEN early
                 ELSE LET terms2 == VarOr_negated_absorption_with_and(VarOr_absorption_with_and(terms))
                      IN  IF ~bool_type THEN rebuild_sorted(terms2, self, "or")
                          ELSE rebuild_sorted(terms2, false(self.lang), "or")

\* VarAdd._rebuild_terms: the terms built from the sorted linear terms
RECURSIVE linear_part(_, _)
linear_part(self, items) ==
    IF items = <<>> THEN <<>>
    ELSE LET it == Head(items)
             l == self.lang
             mul_cls == Language(l).ops.Mul
             int_cls == Language(l).types.Int
             this ==
                 IF it.coeff = 0 THEN <<>>
                 ELSE IF it.coeff_type # "None" /\ mul_cls
                 THEN <<simplify(VarMul(l, NewConst(it.coeff_type, l, it.coeff), it.base))>>
                 ELSE IF it.coeff_type = "None" /\ int_cls /\ mul_cls
                 THEN <<simplify(VarMul(l, VarInt(l, it.coeff), it.base))>>
                 ELSE IF it.coeff = 1 THEN <<it.base>>
                 ELSE <<simplify(RepeatAdd(it.base, it.base, it.coeff - 1))>>
         IN  this \o linear_part(self, Tail(items))

_rebuild_terms(self, c) ==
    LET const_part ==
            IF c.const_type # "None" /\ c.const_sum # 0
            THEN <<NewConst(c.const_type, self.lang, c.const_sum)>>
            ELSE <<>>
    IN  const_part \o linear_part(self, sorted_items(c.linear_terms)) \o c.others

VarAdd_simplify(self) ==
    LET left == simplify(self.left)
        right == simplify(self.right)
        terms == walk("add", left) \o walk("add", right)
        new_terms == _rebuild_terms(self, _collect_linear_terms(NoLinearTerms, terms))
    IN  IF new_terms = <<>> THEN self
        ELSE IF Len(new_terms) = 1 THEN new_terms[1]
        ELSE FoldLeft("add", Head(new_terms), Tail(new_terms))

VarMul_simplify(self) ==
    LET left == simplify(self.left)
        right == simplify(self.right)
        factors == walk("mul", left) \o walk("mul", right)
        c == _collect_constant_factor(NoConstantFactor, factors)
        l == self.lang
        new_factors ==
            (IF c.const_type # "None" /\ c.const_prod # 1
             THEN <<NewConst(c.const_type, l, c.const_prod)>> ELSE <<>>) \o c.non_const
    IN  IF c.const_type # "None" /\ c.const_prod = 0 THEN NewConst(c.const_type, l, 0)
        ELSE IF new_factors = <<>>
        THEN IF c.const_type # "None" THEN NewConst(c.const_type, l, c.const_prod) ELSE self
        ELSE IF Len(new_factors) = 1 THEN new_factors[1]
        ELSE FoldLeft("mul", Head(new_factors), Tail(new_factors))

\* VarSub._negate_expr; None when the expression cannot be negated
_negate_expr(self, expr) ==
    LET l == self.lang
        mul_cls == Language(l).ops.Mul
    IN  IF IsIntConst(expr) THEN NewConst(expr.type, l, 0 - IntValue(expr))
        ELSE IF expr.type = "mul" /\ mul_cls /\ IsIntConst(expr.left)
        THEN simplify(VarMul(l, NewConst(expr.left.type, l, 0 - IntValue(expr.left)), expr.right))
        ELSE IF expr.type = "mul" /\ mul_cls /\ IsIntConst(expr.right)
        THEN simplify(VarMul(l, expr.left, NewConst(expr.right.type, l, 0 - IntValue(expr.right))))
        ELSE IF Language(l).types.Int /\ mul_cls
        THEN simplify(VarMul(l, VarInt(l, 0 - 1), expr))
        ELSE None

VarSub_simplify(self) ==
    LET left == simplify(self.left)
        right == simplify(self.right)
        l == self.lang
        neg == _negate_expr(self, right)
    IN  IF IsIntConst(left) /\ IsIntConst(right) /\ left.type = right.type
        THEN NewConst(left.type, l, IntValue(left) - IntValue(right))
        ELSE IF IsIntConst(right) /\ IntValue(right) = 0 THEN left
        ELSE IF key(left) = key(right)
        THEN IF IsIntConst(left) THEN NewConst(left.type, l, 0)
             ELSE IF Language(l).types.Int THEN VarInt(l, 0)
             ELSE self
        ELSE IF neg # None THEN simplify(VarAdd(l, left, neg))
        ELSE self

\* VarDiv._reduce_constant_factor; None when nothing is reduced
_reduce_constant_factor(left, right) ==
    IF ~IsIntConst(right) THEN None
    ELSE IF IntValue(right) = 0 THEN None
    ELSE IF left.type # "mul" THEN None
    ELSE LET l == left.left
             r == left.right
             divides(const) ==
                 /\ IsIntConst(const)
                 /\ const.type = right.type
                 /\ Rem(IntValue(const), IntValue(right)) = 0
             new_c(const) == NewConst(const.type, left.lang, FloorDiv(IntValue(const), IntValue(right)))
         IN  IF divides(l) THEN simplify(VarMul(left.lang, new_c(l), r))
             ELSE IF divides(r) THEN simplify(VarMul(left.lang, new_c(r), l))
             ELSE None

\* VarDiv.simplify without the rule 0 / x => 0
VarDiv_simplify_noZeroRule(self) ==
    LET left == simplify(self.left)
        right == simplify(self.right)
        reduced == _reduce_constant_factor(left, right)
    IN  IF IsIntConst(left) /\ IsIntConst(right) /\ left.type = right.type /\ IntValue(right) # 0
        THEN NewConst(left.type, self.lang, FloorDiv(IntValue(left), IntValue(right)))
        ELSE IF IsIntConst(right) /\ IntValue(right) = 1 THEN left
        ELSE IF reduced # None THEN reduced
        ELSE self

VarDiv_simplify(self) ==
    LET left == simplify(self.left)
        right == simplify(self.right)
        reduced == _reduce_constant_factor(left, right)
    IN  IF IsIntConst(left) /\ IsIntConst(right) /\ left.type = right.type /\ IntValue(right) # 0
        THEN NewConst(left.type, self.lang, FloorDiv(IntValue(left), IntValue(right)))
        ELSE IF IsIntConst(right) /\ IntValue(right) = 1 THEN left
        ELSE IF IsIntConst(left) /\ IntValue(left) = 0 THEN NewConst(left.type, self.lang, 0)
        ELSE IF reduced # None THEN reduced
        ELSE self

\* VarConcrete.simplify returns self; the operator classes override it
simplify(e) ==
    CASE e.type = "not" -> VarNot_simplify(e)
      [] e.type = "and" -> VarAnd_simplify(e)
      [] e.type = "or" -> VarOr_simplify(e)
      [] e.type = "add" -> VarAdd_simplify(e)
      [] e.type = "sub" -> VarSub_simplify(e)
      [] e.type = "mul" -> VarMul_simplify(e)
      [] e.type = "div" -> VarDiv_simplify(e)
      [] OTHER -> e

\* ~ without the Null pass-through
__invert___negatesNull(self) ==
    Return(simplify(VarNot(self.lang, simplify(self))), <<"simplify", "not_cls", "simplify">>)

\* VarExpr.__invert__
__invert__(self) ==
    IF Language(self.lang).types.Null /\ self.type = "null"
    THEN Return(self, <<>>)
    ELSE IF ~Language(self.lang).ops.Not
    THEN Raise(ErrNoNot, <<>>)
    ELSE Return(simplify(VarNot(self.lang, simplify(self))), <<"simplify", "not_cls", "simplify">>)

Invert(e) == __invert__(e).ret

(***************************************************************************)
(* The state: two expressions a and b held by the client, and what the     *)
(* last operator call did (out).  The client builds leaves with the        *)
(* constructors and combines what it holds with &, | and ~.                *)
(***************************************************************************)
Outcome(o) == [exc |-> o.exc, returned |-> o.ret # None, trace |-> o.trace]

NoCall == [exc |-> NoExc, returned |-> FALSE, trace |-> <<>>]

Regs == {"a", "b"}

\* store a result in register tgt, keeping the total size within the bound
Store(tgt, e, bound) ==
    /\ tgt = "a" => len(e) + len(b) <= bound
    /\ tgt = "b" => len(a) + len(e) <= bound
    /\ a' = IF tgt = "a" THEN e ELSE a
    /\ b' = IF tgt = "b" THEN e ELSE b

Init ==
    /\ a \in Leaves("K")
    /\ b \in Leaves("K")
    /\ out = NoCall

\* tgt = l & r
AndWithin(bound) ==
    \E l \in {a, b}, r \in {a, b} :
        \E o \in {_dispatch_binop(l, r, "And")} :
            /\ o.exc = NoExc
            /\ out' = Outcome(o)
            /\ \E tgt \in Regs : Store(tgt, o.ret, bound)

\* tgt = l | r
OrWithin(bound) ==
    \E l \in {a, b}, r \in {a, b} :
        \E o \in {_dispatch_binop(l, r, "Or")} :
            /\ o.exc = NoExc
            /\ out' = Outcome(o)
            /\ \E tgt \in Regs : Store(tgt, o.ret, bound)

\* tgt = ~e
InvertWithin(bound) ==
    \E e \in {a, b} :
        \E o \in {__invert__(e)} :
            /\ o.exc = NoExc
            /\ out' = Outcome(o)
            /\ \E tgt \in Regs : Store(tgt, o.ret, bound)

\* VarName(n) / VarBool(v): a fresh leaf
LeafWithin(bound) ==
    \E tgt \in Regs, e \in Leaves("K") :
        /\ Store(tgt, e, bound)
        /\ UNCHANGED out

NewLeaf == LeafWithin(MaxLen)
OpAnd == AndWithin(MaxLen)
OpOr == OrWithin(MaxLen)
OpInvert == InvertWithin(MaxLen)

Next == NewLeaf \/ OpAnd \/ OpOr \/ OpInvert

Spec == Init /\ [][Next]_vars

(***************************************************************************)
(* A client building trees directly with the node classes'                 *)
(* constructors (no simplification) and calling simplify() itself.         *)
(***************************************************************************)
\* tgt = Not(e)
NewNot ==
    \E tgt \in Regs, e \in {a, b} :
        /\ VarUnaryOp_init("K", e)
        /\ Store(tgt, VarNot("K", e), MaxRawLen)
        /\ UNCHANGED out

\* tgt = And(l, r)
NewAnd ==
    \E tgt \in Regs, l \in {a, b}, r \in {a, b} :
        /\ VarBinaryOp_init("K", l, r)
        /\ Store(tgt, VarAnd("K", l, r), MaxRawLen)
        /\ UNCHANGED out

\* tgt = Or(l, r)
NewOr ==
    \E tgt \in Regs, l \in {a, b}, r \in {a, b} :
        /\ VarBinaryOp_init("K", l, r)
        /\ Store(tgt, VarOr("K", l, r), MaxRawLen)
        /\ UNCHANGED out

\* tgt = e.simplify()
CallSimplify ==
    \E e \in {a, b} :
        LET s == simplify(e)
        IN  /\ UNCHANGED out
            /\ \E tgt \in Regs : Store(tgt, s, MaxRawLen)

\* a fresh leaf, within the same bound
RawLeaf == LeafWithin(MaxRawLen)

NextRaw == RawLeaf \/ NewNot \/ NewAnd \/ NewOr \/ CallSimplify

SpecRaw == Init /\ [][NextRaw]_vars

(***************************************************************************)
(* A client holding expressions of both dialects and applying every binary *)
(* operator and ~ to them; a call that raises leaves what it holds as is.  *)
(***************************************************************************)
AllLeaves == Leaves("K") \cup Leaves("M") \cup {VarNull("M")}

InitMix ==
    /\ a \in AllLeaves
    /\ b \in AllLeaves
    /\ out = NoCall

\* a fresh leaf of either dialect
MixLeaf ==
    \E tgt \in Regs, e \in AllLeaves :
        /\ Store(tgt, e, MaxMixLen)
        /\ UNCHANGED out

\* tgt = l op r, for any of &, |, +, -, *, /
MixBinop ==
    \E tgt \in Regs, l \in {a, b}, r \in {a, b}, op \in BinOps :
        \E o \in {_dispatch_binop(l, r, op)} :
            /\ out' = Outcome(o)
            /\ IF o.exc = NoExc
               THEN Store(tgt, o.ret, MaxMixLen)
               ELSE UNCHANGED <<a, b>>

\* tgt = ~e
MixInvert ==
    \E tgt \in Regs, e \in {a, b} :
        \E o \in {__invert__(e)} :
            /\ out' = Outcome(o)
            /\ IF o.exc = NoExc
               THEN Store(tgt, o.ret, MaxMixLen)
               ELSE UNCHANGED <<a, b>>

NextMix == MixLeaf \/ MixBinop \/ MixInvert

SpecMix == InitMix /\ [][NextMix]_vars

(***************************************************************************)
(* A client of the arithmetic dialect: it holds names, Int and Bool        *)
(* constants of "A" and combines them with +, -, * and /.                  *)
(***************************************************************************)
ArithLeaves == Leaves("A") \cup {VarInt("A", v) : v \in (0 - MaxInt)..MaxInt}

\* every Int constant of the tree is within the bound
RECURSIVE IntsWithin(_, _)
IntsWithin(e, m) ==
    CASE e.type = "int" -> (e.value <= m /\ 0 - m <= e.value)
      [] IsUnary(e) -> IntsWithin(e.child, m)
      [] IsBinary(e) -> IntsWithin(e.left, m) /\ IntsWithin(e.right, m)
      [] OTHER -> TRUE

InitArith ==
    /\ a \in ArithLeaves
    /\ b \in ArithLeaves
    /\ out = NoCall

\* a fresh leaf of the arithmetic dialect
ArithLeaf ==
    \E tgt \in Regs, e \in ArithLeaves :
        /\ Store(tgt, e, MaxArithLen)
        /\ UNCHANGED out

\* tgt = l op r, for any of +, -, *, /
ArithBinop ==
    \E l \in {a, b}, r \in {a, b}, op \in ArithOps :
        \E o \in {_dispatch_binop(l, r, op)} :
            /\ o.exc = NoExc
            /\ IntsWithin(o.ret, MaxInt)
            /\ out' = Outcome(o)
            /\ \E tgt \in Regs : Store(tgt, o.ret, MaxArithLen)

NextArith == ArithLeaf \/ ArithBinop

SpecArith == InitArith /\ [][NextArith]_vars

(***************************************************************************)
(* Registration of a dialect.  Language() starts with every slot unbound;  *)
(* defining a subclass of a language-bound base class binds its slot       *)
(* (__init_subclass__); validate() checks the mandatory slots.  Here a is  *)
(* the Language object, b is unused and out is what the last validate()    *)
(* call did.                                                               *)
(***************************************************************************)
TypeSlots == {"Bool", "Name", "Null", "Int", "String"}
OpSlots == {"Not", "And", "Or", "Add", "Sub", "Mul", "Div"}

\* Language.__init__
Language_init(name) ==
    [name |-> name, types |-> [t \in TypeSlots |-> FALSE], ops |-> [o \in OpSlots |-> FALSE]]

\* the checks of Language.validate, in order: the slot and the name appended
MandatoryChecks == <<"types.Bool", "types.Name", "ops.Not", "ops.And", "ops.Or">>

\* is the slot with this dotted name bound
SlotBound(lang, s) ==
    CASE s = "types.Bool" -> lang.types.Bool
      [] s = "types.Name" -> lang.types.Name
      [] s = "ops.Not" -> lang.ops.Not
      [] s = "ops.And" -> lang.ops.And
      [] s = "ops.Or" -> lang.ops.Or

\* ', '.join(missing)
RECURSIVE join(_, _)
join(sep, items) ==
    IF items = <<>> THEN ""
    ELSE IF Len(items) = 1 THEN items[1]
    ELSE items[1] \o sep \o join(sep, Tail(items))

\* the missing list without the check of ops.Or
missing_forgetsOr(lang) ==
    LET unbound(s) == s # "ops.Or" /\ ~SlotBound(lang, s)
    IN  SelectSeq(MandatoryChecks, unbound)

\* the list "missing" built by Language.validate
missing(lang) ==
    LET unbound(s) == ~SlotBound(lang, s)
    IN  SelectSeq(MandatoryChecks, unbound)

ErrMissingDescriptors(name, names) ==
    "RuntimeError: Language " \o name \o " missing descriptors: " \o join(", ", names)

\* Language.validate
validate(lang) ==
    IF missing(lang) # <<>>
    THEN Raise(ErrMissingDescriptors(lang.name, missing(lang)), <<>>)
    ELSE Return(None, <<>>)

InitLang ==
    /\ a = Language_init("L")
    /\ b = None
    /\ out = NoCall

\* class X(VarBool[L]) and the like: __init_subclass__ binds the slot
DefineTypeClass ==
    \E t \in TypeSlots :
        /\ a' = [a EXCEPT !.types[t] = TRUE]
        /\ UNCHANGED <<b, out>>

DefineOpClass ==
    \E o \in OpSlots :
        /\ a' = [a EXCEPT !.ops[o] = TRUE]
        /\ UNCHANGED <<b, out>>

\* L.validate()
CallValidate ==
    /\ out' = [exc |-> validate(a).exc, returned |-> FALSE, trace |-> <<>>]
    /\ UNCHANGED <<a, b>>

NextLang == DefineTypeClass \/ DefineOpClass \/ CallValidate

SpecLang == InitLang /\ [][NextLang]_vars

(***************************************************************************)
(* A client of the dialect "P", used before its registration is complete:  *)
(* no Bool class is bound yet, so its leaves are names only.               *)
(***************************************************************************)
PartialLeaves == {VarName("P", n) : n \in Names}

InitPartial ==
    /\ a \in PartialLeaves
    /\ b \in PartialLeaves
    /\ out = NoCall

\* VarName(n): a fresh leaf; VarExpr.__init__ only resolves the Language
PartialLeaf ==
    \E tgt \in Regs, e \in PartialLeaves :
        /\ Store(tgt, e, MaxPartialLen)
        /\ UNCHANGED out

PartialAnd == AndWithin(MaxPartialLen)
PartialOr == OrWithin(MaxPartialLen)
PartialInvert == InvertWithin(MaxPartialLen)

NextPartial == PartialLeaf \/ PartialAnd \/ PartialOr \/ PartialInvert

SpecPartial == InitPartial /\ [][NextPartial]_vars

(***************************************************************************)
(* Truth value of a logic expression under an assignment of its names.     *)
(***************************************************************************)
Envs == [Names -> BOOLEAN]

RECURSIVE Eval(_, _)
Eval(e, env) ==
    CASE e.type = "bool" -> e.value
      [] e.type = "name" -> env[e.name]
      [] e.type = "not" -> ~Eval(e.child, env)
      [] e.type = "and" -> Eval(e.left, env) /\ Eval(e.right, env)
      [] e.type = "or" -> Eval(e.left, env) \/ Eval(e.right, env)

Held == {a, b}
IsCompound(e) == e.type \in {"not", "and", "or"}

(***************************************************************************)
(* Properties of the logic simplifier.                                     *)
(***************************************************************************)

\* C1 - Idempotence: every expression e built with &, | and ~ from names and
\* Bool constants satisfies key(simplify(simplify(e))) = key(simplify(e)),
\* and, being the value an operator returned, is a fixed point of simplify().
C1_Idempotence ==
    \A e \in Held :
        /\ key(simplify(simplify(e))) = key(simplify(e))
        /\ key(simplify(e)) = key(e)

\* C2 - Semantic equivalence: under every truth assignment, simplify(e)
\* evaluates as e does, and a & b, a | b, ~a evaluate as the conjunction,
\* disjunction and negation of their operands.
C2_SemanticEquivalence ==
    /\ \A e \in Held :
        LET s == simplify(e)
            n == Invert(e)
        IN  \A env \in Envs :
                /\ Eval(s, env) = Eval(e, env)
                /\ Eval(n, env) = ~Eval(e, env)
    /\ \A l \in Held, r \in Held :
        LET conj == __and__(l, r)
            disj == __or__(l, r)
        IN  \A env \in Envs :
                /\ Eval(conj, env) = (Eval(l, env) /\ Eval(r, env))
                /\ Eval(disj, env) = (Eval(l, env) \/ Eval(r, env))

\* simplify() was called on a directly constructed tree it rewrites, and the
\* conjunction of the tree with the result is rewritten as well
C2_Witness ==
    /\ IsCompound(a) /\ IsCompound(b)
    /\ b = simplify(a)
    /\ key(b) # key(a)
    /\ __and__(a, b) # VarAnd("K", a, b)

\* C3 - Commutativity under key-equality: key(a & b) = key(b & a) and
\* key(a | b) = key(b | a) for all expressions a, b of one dialect.
C3_Commutativity ==
    /\ key(__and__(a, b)) = key(__and__(b, a))
    /\ key(__or__(a, b)) = key(__or__(b, a))

\* two different compound operands whose conjunction is an And node
C3_Witness ==
    /\ IsCompound(a) /\ IsCompound(b)
    /\ key(a) # key(b)
    /\ __and__(a, b).type = "and"
    /\ __or__(a, b).type = "or"
    /\ out.returned

\* C4 - Associativity under key-equality: key((a & b) & c) = key(a & (b & c))
\* and key((a | b) | c) = key(a | (b | c)), for expressions a, b held by the
\* client and every leaf c.
C4_Associativity ==
    \A cc \in Leaves("K") :
        /\ key(__and__(__and__(a, b), cc)) = key(__and__(a, __and__(b, cc)))
        /\ key(__or__(__or__(a, b), cc)) = key(__or__(a, __or__(b, cc)))

\* C5 - Contradiction / tautology: a & ~a is the dialect's False constant
\* and a | ~a its True constant, for every expression a.
C5_ContradictionTautology ==
    \A e \in Held :
        /\ __and__(e, Invert(e)) = false(e.lang)
        /\ __or__(e, Invert(e)) = true(e.lang)

\* C6 - Absorption: a & (a | b) and a | (a & b) both have the key of
\* simplify(a), for all expressions a, b.
C6_Absorption ==
    \A x \in Held, y \in Held :
        /\ key(__and__(x, __or__(x, y))) = key(simplify(x))
        /\ key(__or__(x, __and__(x, y))) = key(simplify(x))

\* C7 - De Morgan round-trip: key(~(a & b)) = key(~a | ~b) and
\* key(~(a | b)) = key(~a & ~b), for all expressions a, b.
C7_DeMorgan ==
    /\ key(Invert(__and__(a, b))) = key(__or__(Invert(a), Invert(b)))
    /\ key(Invert(__or__(a, b))) = key(__and__(Invert(a), Invert(b)))

\* C8 - Double negation: key(~~a) = key(simplify(a)) for every expression a.
C8_DoubleNegation ==
    \A e \in Held : key(Invert(Invert(e))) = key(simplify(e))

\* C9 - Identity / annihilator laws: a & True, True & a, a | False and
\* False | a have the key of simplify(a); a & False and False & a are the
\* False constant; a | True and True | a are the True constant.
C9_IdentityAnnihilator ==
    \A e \in Held :
        LET T == true(e.lang)
            F == false(e.lang)
        IN  /\ key(__and__(e, T)) = key(simplify(e))
            /\ key(__and__(T, e)) = key(simplify(e))
            /\ key(__or__(e, F)) = key(simplify(e))
            /\ key(__or__(F, e)) = key(simplify(e))
            /\ __and__(e, F) = F
            /\ __and__(F, e) = F
            /\ __or__(e, T) = T
            /\ __or__(T, e) = T

\* a compound operator result that simplify() would still rewrite
C9_Witness ==
    /\ a.type \in {"and", "or"}
    /\ key(simplify(a)) # key(a)
    /\ out.returned

\* C10 - Dialect isolation: every binary operator (&, |, +, -, *, /) applied
\* to two nodes of different dialects raises the dialect-mismatch TypeError,
\* returns no node, and has simplified neither operand.
SimplifyCalls == {"lhs.simplify", "rhs.simplify", "simplify"}

C10_DialectIsolation ==
    /\ \A l \in Held, r \in Held, op \in BinOps :
        resolve_language(l) # resolve_language(r) =>
            \E o \in {_dispatch_binop(l, r, op)} :
                /\ o.exc = ErrDifferentLanguage
                /\ o.ret = None
                /\ \A i \in 1..Len(o.trace) : o.trace[i] \notin SimplifyCalls
    /\ out.exc \in {ErrDifferentLanguage, ErrMismatchedBinary} =>
            /\ out.exc = ErrDifferentLanguage
            /\ ~out.returned
            /\ out.trace = <<"_check_same_ops">>

\* an operator was just applied to compound operands of the two dialects
C10_Witness ==
    /\ out.exc = ErrDifferentLanguage
    /\ resolve_language(a) # resolve_language(b)
    /\ IsCompound(a) /\ IsCompound(b)

(***************************************************************************)
(* Properties of the operator dispatcher.                                  *)
(***************************************************************************)
isNull(e) == e.type = "null"

\* C11 - Null short-circuit: in a dialect that registers a Null type, for
\* every binary operator op and every non-Null X, Null op X and X op Null
\* return simplify(X), Null op Null returns the Null singleton, and ~Null
\* returns Null.
C11_NullShortCircuit ==
    /\ \A l \in Held, r \in Held, op \in BinOps :
        (resolve_language(l) = resolve_language(r) /\ Language(l.lang).types.Null) =>
            \E o \in {_dispatch_binop(l, r, op)} :
                /\ (isNull(l) /\ isNull(r)) => (o.exc = NoExc /\ o.ret = VarNull(l.lang))
                /\ (isNull(l) /\ ~isNull(r)) => (o.exc = NoExc /\ o.ret = simplify(r))
                /\ (~isNull(l) /\ isNull(r)) => (o.exc = NoExc /\ o.ret = simplify(l))
    /\ \A e \in Held :
        (isNull(e) /\ Language(e.lang).types.Null) =>
            (__invert__(e).exc = NoExc /\ __invert__(e).ret = e)

\* an operator was just applied to Null and a compound expression, and took
\* the short-circuit
C11_Witness ==
    /\ isNull(a) /\ IsCompound(b)
    /\ resolve_language(a) = resolve_language(b)
    /\ out.exc = NoExc /\ out.returned
    /\ out.trace = <<"_check_same_ops", "rhs.simplify">>

\* C12 - Unsupported operator: for two non-Null operands of one dialect, +,
\* -, * or / whose Add/Sub/Mul/Div slot is unbound raises the TypeError
\* saying the operator is not defined and builds no node, while &, | and ~
\* on the same operands return a node.
C12_UnsupportedOperator ==
    /\ \A l \in Held, r \in Held :
        (resolve_language(l) = resolve_language(r) /\ ~isNull(l) /\ ~isNull(r)) =>
            /\ \A op \in ArithOps :
                \E o \in {_dispatch_binop(l, r, op)} :
                    /\ o.exc = ErrNoOperator
                    /\ o.ret = None
                    /\ \A i \in 1..Len(o.trace) : o.trace[i] # "op_cls"
            /\ \A op \in {"And", "Or"} :
                LET o == _dispatch_binop(l, r, op)
                IN  o.exc = NoExc /\ o.ret # None
            /\ __invert__(l).exc = NoExc /\ __invert__(l).ret # None
    /\ out.exc = ErrNoOperator => (~out.returned /\ out.trace = <<"_check_same_ops">>)

\* an arithmetic operator was just applied to two compound operands of one
\* dialect, and raised
C12_Witness ==
    /\ out.exc = ErrNoOperator
    /\ resolve_language(a) = resolve_language(b)
    /\ IsCompound(a) /\ IsCompound(b)

(***************************************************************************)
(* Properties of the arithmetic simplifier.                                *)
(***************************************************************************)
__add__(self, other) == _dispatch_binop(self, other, "Add").ret
__mul__(self, other) == _dispatch_binop(self, other, "Mul").ret

IntLiterals == (0 - MaxInt)..MaxInt

\* C13 - Constant folding of addition: for all integers i and j, including
\* pairs with i + j = 0, Int(i) + Int(j) is the single constant Int(i + j).
C13_AddFolding ==
    (a.type = "int" /\ b.type = "int") =>
        /\ __add__(a, b) = VarInt(a.lang, a.value + b.value)
        /\ simplify(VarAdd(a.lang, a, b)) = VarInt(a.lang, a.value + b.value)

\* C14 - Linear-term collection: for all integers c1, c2 and every
\* non-constant base expression x, Int(c1)*x + Int(c2)*x has the key of
\* Int(c1 + c2)*x, and x + x has the key of Int(2)*x.
C14_LinearTermCollection ==
    \A x \in Held :
        ~IsIntConst(x) =>
            /\ \A c1 \in IntLiterals, c2 \in IntLiterals :
                key(__add__(__mul__(VarInt(x.lang, c1), x), __mul__(VarInt(x.lang, c2), x)))
                    = key(__mul__(VarInt(x.lang, c1 + c2), x))
            /\ key(__add__(x, x)) = key(__mul__(VarInt(x.lang, 2), x))

(***************************************************************************)
(* Properties of the dialect registration.                                 *)
(***************************************************************************)
MandatorySlots == {"types.Bool", "types.Name", "ops.Not", "ops.And", "ops.Or"}
OptionalTypes == {"Null", "Int", "String"}
OptionalOps == {"Add", "Sub", "Mul", "Div"}

\* C15 - Language.validate() raises if and only if at least one of the five
\* mandatory slots is unbound, the error names exactly the unbound mandatory
\* slots, and unbound optional slots never make it fail.
C15_Validate ==
    LET o == validate(a)
        unbound == {s \in MandatorySlots : ~SlotBound(a, s)}
        named == {missing(a)[i] : i \in 1..Len(missing(a))}
    IN  /\ (o.exc # NoExc) <=> (unbound # {})
        /\ o.exc # NoExc =>
            /\ named = unbound
            /\ Len(missing(a)) = Cardinality(unbound)
            /\ o.exc = ErrMissingDescriptors(a.name, missing(a))
        /\ \A t \in OptionalTypes, v \in BOOLEAN :
                validate([a EXCEPT !.types[t] = v]).exc = o.exc
        /\ \A p \in OptionalOps, v \in BOOLEAN :
                validate([a EXCEPT !.ops[p] = v]).exc = o.exc
        /\ (unbound = {} /\ \A t \in OptionalTypes : ~a.types[t]) => o.exc = NoExc

\* validate() has just failed on a Language with some mandatory slots bound,
\* others unbound and an optional slot bound
C15_Witness ==
    /\ out.exc = validate(a).exc
    /\ out.exc = "RuntimeError: Language L missing descriptors: types.Bool, ops.Or"
    /\ a.types.Int /\ a.ops.Add /\ ~a.types.Null

\* C16 - Incomplete dialect registration fails fast: combining expressions
\* of a dialect in which any of Bool, Name, Not, And, Or is unbound raises
\* the error naming the missing slots instead of proceeding into simplify(),
\* so no operator returns a node of such a dialect.
C16_FailFast ==
    /\ \A l \in Held, r \in Held, op \in {"And", "Or"} :
        LET v == validate(Language(l.lang))
            o == _dispatch_binop(l, r, op)
        IN  (resolve_language(l) = resolve_language(r) /\ v.exc # NoExc) =>
                /\ o.exc = v.exc
                /\ \A i \in 1..Len(o.trace) : o.trace[i] \notin SimplifyCalls
    /\ \A e \in Held :
        LET v == validate(Language(e.lang))
        IN  v.exc # NoExc => __invert__(e).exc = v.exc
    /\ out.returned => validate(Language(a.lang)).exc = NoExc

\* C17 - Structural key of logic nodes: for any two nodes l, r of one
\* dialect the directly constructed nodes And(l, r) and And(r, l) have the
\* same key() and compare equal, and likewise Or(l, r) and Or(r, l).
C17_StructuralKey ==
    \A l \in Held, r \in Held :
        l.lang = r.lang =>
            /\ key(VarAnd(l.lang, l, r)) = key(VarAnd(l.lang, r, l))
            /\ Eq(VarAnd(l.lang, l, r), VarAnd(l.lang, r, l))
            /\ key(VarOr(l.lang, l, r)) = key(VarOr(l.lang, r, l))
            /\ Eq(VarOr(l.lang, l, r), VarOr(l.lang, r, l))

(***************************************************************************)
(* Make function nodes (dsl/make/var.py): MFunc holds its name and the     *)
(* Python list _args of its arguments.  The registers are used as follows: *)
(* a is the MFunc object the client holds, with the current contents of    *)
(* its fields; b is the argument expression being built with the plain     *)
(* constructors; out is the key() of a taken right after its construction. *)
(***************************************************************************)
FuncNames == {"shell", "eval", "if"}

\* MFunc.__init__(name, *args); MIf(cond) passes (cond, MConst.false())
MFunc(name, args) == [type |-> "func", lang |-> "M", name |-> name, args |-> args]

MIf(cond) == MFunc("if", <<cond, false("M")>>)

\* MFunc.key(): (name, tuple of the keys of the arguments)
MFunc_key(self) == <<self.name, [i \in 1..Len(self.args) |-> key(self.args[i])]>>

\* "sa is not a": VarConcrete.simplify returns self; the simplify of a Not,
\* And or Or node returns a sub-node, a constant or a newly built node
IsNot(sa, arg) == arg.type \notin {"bool", "name", "null", "int"}

\* MFunc.simplify(): _args is rebound to the simplified arguments when any
\* of them is a different object, and self is returned
MFunc_simplify(self) ==
    LET new_args == [i \in 1..Len(self.args) |-> simplify(self.args[i])]
        changed == \E i \in 1..Len(self.args) : IsNot(new_args[i], self.args[i])
    IN  IF changed THEN [self EXCEPT !.args = new_args] ELSE self

InitFunc ==
    /\ b \in Leaves("M")
    /\ a = MFunc("shell", <<b>>)
    /\ out = MFunc_key(a)

\* b = a fresh leaf of the Make dialect
FuncArgLeaf ==
    /\ b' \in Leaves("M") \cup {VarNull("M")}
    /\ UNCHANGED <<a, out>>

\* b = Not(b)
FuncArgNot ==
    /\ len(b) < MaxFuncLen
    /\ b' = VarNot("M", b)
    /\ UNCHANGED <<a, out>>

\* b = And(b, leaf), And(leaf, b), Or(b, leaf) or Or(leaf, b)
FuncArgBinary ==
    \E leaf \in Leaves("M"), swap \in BOOLEAN, t \in {"and", "or"} :
        /\ len(b) + 1 < MaxFuncLen
        /\ b' = IF swap THEN VarBinaryOp(t, "M", leaf, b)
                ELSE VarBinaryOp(t, "M", b, leaf)
        /\ UNCHANGED <<a, out>>

\* a = MFunc(name, b), or MIf(b); its key is recorded
NewFunc ==
    \E name \in FuncNames :
        /\ a' = IF name = "if" THEN MIf(b) ELSE MFunc(name, <<b>>)
        /\ out' = MFunc_key(a')
        /\ UNCHANGED b

\* a.simplify(): the object a refers to is the one whose field is rebound
FuncSimplify ==
    /\ a' = MFunc_simplify(a)
    /\ UNCHANGED <<b, out>>

NextFunc == FuncArgLeaf \/ FuncArgNot \/ FuncArgBinary \/ NewFunc \/ FuncSimplify

SpecFunc == InitFunc /\ [][NextFunc]_vars

\* C18 - Immutability: simplify() leaves the node it is called on unchanged;
\* after any sequence of calls the key() of a constructed node is the one
\* it had right after its construction.
C18_Immutability == MFunc_key(a) = out

(***************************************************************************)
(* Variable names (VarName.__init__, add_prefix, add_suffix).  A string is *)
(* a sequence of characters.  The registers are used as follows: a is the  *)
(* Name node the client holds, b is the special_chars it was constructed   *)
(* with (carried along to the nodes derived from it), out is the outcome   *)
(* of the last call.                                                       *)
(***************************************************************************)
Alphabet == {"a", "_", "-", " "}

\* _BASE_ALLOWED = "A-Za-z0-9_.", restricted to the alphabet
_BASE_ALLOWED == {"a", "_"}

Whitespace == {" "}

Texts(n) == UNION {[1..k -> Alphabet] : k \in 0..n}

\* str.strip()
RECURSIVE lstrip(_)
lstrip(s) == IF s # <<>> /\ s[1] \in Whitespace THEN lstrip(Tail(s)) ELSE s

RECURSIVE rstrip(_)
rstrip(s) ==
    IF s # <<>> /\ s[Len(s)] \in Whitespace THEN rstrip(SubSeq(s, 1, Len(s) - 1))
    ELSE s

strip(s) == rstrip(lstrip(s))

\* str.replace(" ", "_")
replace_spaces(s) == [i \in 1..Len(s) |-> IF s[i] = " " THEN "_" ELSE s[i]]

\* the character class of illegal_re: everything outside _BASE_ALLOWED and
\* the escaped special_chars
allowed_chars(special_chars) ==
    _BASE_ALLOWED \cup {special_chars[i] : i \in 1..Len(special_chars)}

\* illegal_re.search(s): the position of the first illegal character, 0 for
\* no match
search(s, special_chars) ==
    LET bad == {i \in 1..Len(s) : s[i] \notin allowed_chars(special_chars)}
    IN  IF bad = {} THEN 0 ELSE CHOOSE i \in bad : \A j \in bad : i <= j

NameNode(s) == [type |-> "name", lang |-> "K", name |-> s]

\* VarName.__init__(name, special_chars="")
VarName_init(name, special_chars) ==
    LET s == replace_spaces(strip(name))
        m == search(s, special_chars)
    IN  IF strip(name) = <<>>
        THEN [exc |-> "ValueError: Empty variable name", ret |-> None]
        ELSE IF m # 0
        THEN [exc |-> "ValueError: Illegal character '" \o s[m] \o "' in variable name",
              ret |-> None]
        ELSE [exc |-> NoExc, ret |-> NameNode(s)]

\* add_prefix: type(self)(f"{prefix}_{self.name}")
add_prefix(self, prefix) == VarName_init(prefix \o <<"_">> \o self.name, <<>>)

\* add_suffix: type(self)(f"{self.name}_{suffix}")
add_suffix(self, suffix) == VarName_init(self.name \o <<"_">> \o suffix, <<>>)

NameOutcome(o) == [exc |-> o.exc, returned |-> o.ret # None, trace |-> <<>>]

SpecialChars == {<<>>, <<"-">>}

\* the prefixes and suffixes the client passes: non-empty, of base characters
LegalAffixes == {<<"a">>, <<"_">>}

InitName ==
    /\ a = NameNode(<<"a">>)
    /\ b = <<>>
    /\ out = NoCall

\* a = Name(text, special_chars); a raising constructor leaves a as it was
NewName ==
    \E text \in Texts(MaxInputLen), sc \in SpecialChars :
        LET o == VarName_init(text, sc)
        IN  /\ out' = NameOutcome(o)
            /\ a' = IF o.exc = NoExc THEN o.ret ELSE a
            /\ b' = IF o.exc = NoExc THEN sc ELSE b

\* a = a.add_prefix(p)
AddPrefix ==
    \E p \in LegalAffixes :
        LET o == add_prefix(a, p)
        IN  /\ Len(a.name) + Len(p) + 1 <= MaxNameLen
            /\ out' = NameOutcome(o)
            /\ a' = IF o.exc = NoExc THEN o.ret ELSE a
            /\ UNCHANGED b

\* a = a.add_suffix(s)
AddSuffix ==
    \E s \in LegalAffixes :
        LET o == add_suffix(a, s)
        IN  /\ Len(a.name) + Len(s) + 1 <= MaxNameLen
            /\ out' = NameOutcome(o)
            /\ a' = IF o.exc = NoExc THEN o.ret ELSE a
            /\ UNCHANGED b

NextName == NewName \/ AddPrefix \/ AddSuffix

SpecName == InitName /\ [][NextName]_vars

\* C19 - add_prefix/add_suffix preserve validation rules: for the Name node
\* held, constructed successfully with special_chars b, add_prefix(p) and
\* add_suffix(s) with legal p and s succeed and return the Name p_<name> /
\* <name>_s, the outcome of validating that text under b.
C19_AffixPreservesRules ==
    \A p \in LegalAffixes :
        /\ add_prefix(a, p).exc = NoExc
        /\ add_prefix(a, p) = VarName_init(p \o <<"_">> \o a.name, b)
        /\ add_suffix(a, p).exc = NoExc
        /\ add_suffix(a, p) = VarName_init(a.name \o <<"_">> \o p, b)

(***************************************************************************)
(* The Kconfig binding (dsl/kconfig/var.py) on the engine whose API it is  *)
(* written for (dsl/core/var.py): the LanguageOps subclass KconfigOps is   *)
(* the class table, with Const = KConst, Name = KVar, Not = KNot,          *)
(* And = KAnd, Or = KOr.  Nodes are records as above, of dialect "KC"; a   *)
(* constant is [type |-> "const", val |-> ...].                            *)
(***************************************************************************)
KNames == {"A", "B"}

KConstBool(v) == [type |-> "const", lang |-> "KC", val |-> v]
KVar(n) == [type |-> "name", lang |-> "KC", name |-> n]
KNot(ch) == VarUnaryOp("not", "KC", ch)
KAnd(lt, rt) == VarBinaryOp("and", "KC", lt, rt)
KOr(lt, rt) == VarBinaryOp("or", "KC", lt, rt)

KLeaves == {KVar(n) : n \in KNames} \cup {KConstBool(v) : v \in BOOLEAN}

ErrAbstractKConst ==
    "TypeError: Can't instantiate abstract class KConst with abstract method __str__"
ErrDifferentOps == "TypeError: Cannot combine expressions with different LanguageOps"

\* ConstCls(val) with ConstCls = KconfigOps.Const = KConst: KConst is an ABC
\* that inherits the abstract __str__ of VarExpr, so the call raises
ConstCls(val) == Raise(ErrAbstractKConst, <<>>)

\* Python's order of the key tuples of the core engine
CoreTypeOrder == <<"and", "const", "name", "not", "or">>
KNameOrder == <<"A", "B">>

RECURSIVE CoreKeyLess(_, _)
RECURSIVE CoreKeysLess(_, _)
CoreKeyLess(k1, k2) ==
    IF k1[1] # k2[1] THEN Rank(CoreTypeOrder, k1[1]) < Rank(CoreTypeOrder, k2[1])
    ELSE CASE k1[1] = "const" -> (k1[2] = FALSE /\ k2[2] = TRUE)
           [] k1[1] = "name" -> Rank(KNameOrder, k1[2]) < Rank(KNameOrder, k2[2])
           [] k1[1] = "not" -> CoreKeyLess(k1[2], k2[2])
           [] OTHER -> CoreKeysLess(k1[2], k2[2])

\* tuples of keys, element by element; a proper prefix is smaller
CoreKeysLess(s1, s2) ==
    IF s2 = <<>> THEN FALSE
    ELSE IF s1 = <<>> THEN TRUE
    ELSE IF s1[1] # s2[1] THEN CoreKeyLess(s1[1], s2[1])
    ELSE CoreKeysLess(Tail(s1), Tail(s2))

\* sorted(keys)
RECURSIVE InsertKey(_, _)
InsertKey(s, k) ==
    IF s = <<>> THEN <<k>>
    ELSE IF CoreKeyLess(k, s[Len(s)])
    THEN Append(InsertKey(SubSeq(s, 1, Len(s) - 1), k), s[Len(s)])
    ELSE Append(s, k)

RECURSIVE sorted_keys(_)
sorted_keys(s) ==
    IF s = <<>> THEN <<>>
    ELSE InsertKey(sorted_keys(SubSeq(s, 1, Len(s) - 1)), s[Len(s)])

\* key() of the core engine: And and Or have the sorted tuple of the keys of
\* their flattened terms as payload
RECURSIVE core_key(_)
RECURSIVE core_walk(_, _, _)

\* _flatten_terms.add: the neutral constant and a key seen before are dropped
core_add(items, e, t) ==
    IF e.type = "const" /\ e.val = (t = "and") THEN items
    ELSE IF \E i \in 1..Len(items) : core_key(items[i]) = core_key(e) THEN items
    ELSE Append(items, e)

\* _flatten_terms.walk
core_walk(items, e, t) ==
    IF e.type = t THEN core_walk(core_walk(items, e.left, t), e.right, t)
    ELSE core_add(items, e, t)

\* VarAnd._flatten_terms / VarOr._flatten_terms
_flatten_terms(x, y, t) == core_walk(core_walk(<<>>, x, t), y, t)

core_key(e) ==
    CASE e.type = "const" -> <<"const", e.val>>
      [] e.type = "name" -> <<"name", e.name>>
      [] e.type = "not" -> <<"not", core_key(e.child)>>
      [] OTHER ->
          LET flat == _flatten_terms(e.left, e.right, e.type)
          IN  <<e.type, sorted_keys([i \in 1..Len(flat) |-> core_key(flat[i])])>>

\* VarBinaryOp.is_negation_pair of the core engine
core_is_negation_pair(x, y) ==
    \/ core_key(x) = <<"not", core_key(y)>>
    \/ core_key(y) = <<"not", core_key(x)>>

\* _detect_contradiction / _detect_tautology: some term and its negation
\* are both among the terms
_detect(terms) ==
    LET keys == {core_key(terms[i]) : i \in 1..Len(terms)}
    IN  \E i \in 1..Len(terms) :
            IF terms[i].type = "not" THEN core_key(terms[i].child) \in keys
            ELSE <<"not", core_key(terms[i])>> \in keys

\* simplify() of the core engine, and the operators built on it:
\*   l & r = AndCls(l, r).simplify(), l | r = OrCls(l, r).simplify(),
\*   ~e = NotCls(e).simplify()
RECURSIVE core_simplify(_)

\* VarAnd.simplify / VarOr.simplify on the simplified operands L and R; the
\* absorbing constant of And is False, of Or is True.  After the flattening
\* and the search for a term and its negation, the two absorption passes are
\* list computations, and the arguments of the call to rebuild_sorted are
\* evaluated before it: its empty_val is ConstCls(neutral).
core_binary(t, L, R) ==
    LET absorbing == (t = "or")
        terms == _flatten_terms(L, R, t)
    IN  IF L.type = "const" THEN
            (IF L.val = absorbing THEN ConstCls(absorbing) ELSE Return(R, <<>>))
        ELSE IF R.type = "const" THEN
            (IF R.val = absorbing THEN ConstCls(absorbing) ELSE Return(L, <<>>))
        ELSE IF core_key(L) = core_key(R) THEN Return(L, <<>>)
        ELSE IF core_is_negation_pair(L, R) THEN ConstCls(absorbing)
        ELSE IF _detect(terms) THEN ConstCls(absorbing)
        ELSE ConstCls(~absorbing)

\* VarExpr.__and__ / __or__ of the core engine (t is "and" or "or")
core_binop(t, lhs, rhs) ==
    IF lhs.lang # rhs.lang THEN Raise(ErrDifferentOps, <<>>)
    ELSE core_simplify(VarBinaryOp(t, lhs.lang, lhs, rhs))

core_simplify(e) ==
    CASE e.type \in {"const", "name"} -> Return(e, <<>>)
      [] e.type = "not" ->
          LET c == core_simplify(e.child)
          IN  IF c.exc # NoExc THEN c
              ELSE IF c.ret.type = "const" THEN ConstCls(~c.ret.val)
              ELSE IF c.ret.type = "not" THEN Return(c.ret.child, <<>>)
              ELSE IF c.ret.type \in {"and", "or"} THEN
                  LET o == core_binop(IF c.ret.type = "and" THEN "or" ELSE "and",
                                      KNot(c.ret.left), KNot(c.ret.right))
                  IN  IF o.exc # NoExc THEN o ELSE core_simplify(o.ret)
              ELSE Return(KNot(c.ret), <<>>)
      [] OTHER ->
          LET L == core_simplify(e.left)
              R == core_simplify(e.right)
          IN  IF L.exc # NoExc THEN L
              ELSE IF R.exc # NoExc THEN R
              ELSE core_binary(e.type, L.ret, R.ret)

\* VarExpr.__invert__ of the core engine
core_invert(e) == core_simplify(KNot(e))

\* __str__ of KConstBool, KVar, KNot, KAnd and KOr
RECURSIVE __str__(_)
__str__(e) ==
    CASE e.type = "const" -> IF e.val THEN "y" ELSE "n"
      [] e.type = "name" -> e.name
      [] e.type = "not" ->
          IF e.child.type \in {"and", "or"} THEN "!(" \o __str__(e.child) \o ")"
          ELSE "!" \o __str__(e.child)
      [] e.type = "and" ->
          LET ls == IF e.left.type = "or" THEN "(" \o __str__(e.left) \o ")"
                    ELSE __str__(e.left)
              rs == IF e.right.type = "or" THEN "(" \o __str__(e.right) \o ")"
                    ELSE __str__(e.right)
          IN  ls \o " && " \o rs
      [] e.type = "or" -> __str__(e.left) \o " || " \o __str__(e.right)

(***************************************************************************)
(* A client of the Kconfig binding: it builds trees with the constructors, *)
(* combines them with the operators and prints the results.  out is the    *)
(* outcome of the last call and the text it printed.                       *)
(***************************************************************************)
Shown(o) ==
    [exc |-> o.exc, returned |-> o.ret # None,
     text |-> IF o.ret # None THEN __str__(o.ret) ELSE ""]

InitKconfig ==
    /\ a \in KLeaves
    /\ b \in KLeaves
    /\ out = [exc |-> NoExc, returned |-> FALSE, text |-> ""]

\* tgt = a fresh KVar or KConstBool
KconfigLeaf ==
    \E tgt \in Regs, leaf \in KLeaves :
        /\ Store(tgt, leaf, MaxKconfigLen)
        /\ UNCHANGED out

\* tgt = KNot(e), KAnd(l, r) or KOr(l, r)
KconfigNew ==
    \E tgt \in Regs, l \in {a, b}, r \in {a, b}, t \in {"not", "and", "or"} :
        /\ Store(tgt, IF t = "not" THEN KNot(l) ELSE VarBinaryOp(t, "KC", l, r),
                 MaxKconfigLen)
        /\ UNCHANGED out

\* print(l & r), print(l | r); the result is kept when the call returns
KconfigBinop ==
    \E l \in {a, b}, r \in {a, b}, t \in {"and", "or"} :
        LET o == core_binop(t, l, r)
        IN  /\ out' = Shown(o)
            /\ IF o.exc = NoExc
               THEN \E tgt \in Regs : Store(tgt, o.ret, MaxKconfigLen)
               ELSE UNCHANGED <<a, b>>

\* print(~e)
KconfigInvert ==
    \E e \in {a, b} :
        LET o == core_invert(e)
        IN  /\ out' = Shown(o)
            /\ IF o.exc = NoExc
               THEN \E tgt \in Regs : Store(tgt, o.ret, MaxKconfigLen)
               ELSE UNCHANGED <<a, b>>

\* print(e.simplify())
KconfigSimplify ==
    \E e \in {a, b} :
        LET o == core_simplify(e)
        IN  /\ out' = Shown(o)
            /\ IF o.exc = NoExc
               THEN \E tgt \in Regs : Store(tgt, o.ret, MaxKconfigLen)
               ELSE UNCHANGED <<a, b>>

\* print(e)
KconfigStr ==
    \E e \in {a, b} :
        /\ out' = Shown(Return(e, <<>>))
        /\ UNCHANGED <<a, b>>

NextKconfig ==
    \/ KconfigLeaf \/ KconfigNew \/ KconfigBinop \/ KconfigInvert
    \/ KconfigSimplify \/ KconfigStr

SpecKconfig == InitKconfig /\ [][NextKconfig]_vars

\* C20 - Kconfig serialization of De Morgan: for two Kconfig names A and B
\* held by the client, str(~(A & B)) is the text "!A || !B" (here for any
\* two different names, in the order of their keys), and the same text is
\* what printing the simplified tree of Not(And(A, B)) gives.
C20_KconfigDeMorgan ==
    \A l \in Held, r \in Held :
        (l.type = "name" /\ r.type = "name" /\ CoreKeyLess(core_key(l), core_key(r))) =>
            LET conj == core_binop("and", l, r)
                neg == IF conj.exc = NoExc THEN core_invert(conj.ret) ELSE conj
                direct == core_simplify(KNot(KAnd(l, r)))
                text == "!" \o l.name \o " || !" \o r.name
            IN  /\ Shown(neg) = [exc |-> NoExc, returned |-> TRUE, text |-> text]
                /\ Shown(direct) = [exc |-> NoExc, returned |-> TRUE, text |-> text]

(***************************************************************************)
(* The Make binding (dsl/make/var.py) on the engine of dsl/var.py.  The    *)
(* registers are used as follows: a is the module dsl.make.var as its      *)
(* import left it, with the generic argument its class statements pass to  *)
(* the engine's classes; b is the Make expression the client holds (None   *)
(* before the first one); out is the outcome of the last statement of the  *)
(* client and the text it printed.                                         *)
(***************************************************************************)
\* the first generic argument of the base classes: "MakeOps" is the class
\* MakeOps(LanguageOps) that dsl/make/var.py passes, "Language" an instance
\* of Language, the only kind resolve_language accepts
MakeGenericArgs == {"MakeOps", "Language"}

ErrNotLanguage ==
    "TypeError: First generic argument of VarNull[MakeOps] must be a Language instance"
ErrNoTYPE == "AttributeError: 'MConst' object has no attribute 'TYPE'"

\* cls.resolve_language() of a class without LANGUAGE: the exception raised
\* for the generic argument arg, NoExc when the call returns
cls_resolve_language(arg) == IF arg = "Language" THEN NoExc ELSE ErrNotLanguage

\* VarNull.__init_subclass__, run by VarNull[MakeOps] for the first class
\* statement of the module, class MNull(VarNull[MakeOps])
VarNull_init_subclass(arg) == cls_resolve_language(arg)

\* import dsl.make.var: the module body stops at the class statement that raises
import_make_var(arg) == [type |-> "module", arg |-> arg, exc |-> VarNull_init_subclass(arg)]

\* MVar(n) and MConst(v) as the client evaluates them after the import
MVar(m, n) == IF m.exc # NoExc THEN Raise(m.exc, <<>>) ELSE Return(VarName("Make", n), <<>>)

MConst(m, v) ==
    IF m.exc # NoExc THEN Raise(m.exc, <<>>)
    ELSE Return([type |-> "const", lang |-> "Make", value |-> v], <<>>)

\* lo op ro for two evaluated operands: an operand that raised ends the
\* statement; key() of an MConst reads self.TYPE, which VarConst lacks, and
\* VarAnd.simplify / VarOr.simplify call it on both operands
Make_binop(lo, ro, op) ==
    IF lo.exc # NoExc THEN lo
    ELSE IF ro.exc # NoExc THEN ro
    ELSE IF lo.ret.type = "const" \/ ro.ret.type = "const"
    THEN Raise(ErrNoTYPE, <<"_check_same_ops", "lhs.simplify", "rhs.simplify", "op_cls", "simplify">>)
    ELSE _dispatch_binop(lo.ret, ro.ret, op)

\* the walk of MAnd.__str__ / MOr.__str__: the operands of the nested nodes
\* of type t, left to right
RECURSIVE Make_walk(_, _)
Make_walk(t, e) ==
    IF e.type = t THEN Make_walk(t, e.left) \o Make_walk(t, e.right) ELSE <<e>>

\* __str__ of MVar, MAnd and MOr
RECURSIVE Make_str(_)
Make_str(e) ==
    CASE e.type = "name" -> "$(" \o e.name \o ")"
      [] e.type \in {"and", "or"} ->
          LET nodes == Make_walk(e.type, e.left) \o Make_walk(e.type, e.right)
              terms == [i \in 1..Len(nodes) |-> Make_str(nodes[i])]
          IN  IF Len(terms) = 1 THEN terms[1]
              ELSE "$(" \o e.type \o " " \o join(",", terms) \o ")"

\* print(expr): the outcome of the expression and the text printed
MakeShown(o) ==
    [exc |-> o.exc, returned |-> o.ret # None,
     text |-> IF o.ret # None THEN Make_str(o.ret) ELSE ""]

\* an operand of a client statement: the expression held, or MVar(n)
MakeOperands == {"held"} \cup Names

MakeOperand(m, held, x) ==
    IF x = "held" THEN Return(held, <<>>) ELSE MVar(m, x)

InitMake ==
    /\ a \in {import_make_var(arg) : arg \in MakeGenericArgs}
    /\ b = None
    /\ out = [exc |-> a.exc, returned |-> FALSE, text |-> ""]

\* print(l op r) for op in &, |; the result is kept when the call returns
MakeBinop(op) ==
    \E x \in MakeOperands, y \in MakeOperands :
        /\ (x = "held" \/ y = "held") => b # None
        /\ \E o \in {Make_binop(MakeOperand(a, b, x), MakeOperand(a, b, y), op)} :
            /\ out' = MakeShown(o)
            /\ IF o.exc = NoExc /\ len(o.ret) <= MaxMakeLen
               THEN b' = o.ret
               ELSE UNCHANGED b
            /\ UNCHANGED a

MakeAnd == MakeBinop("And")
MakeOr == MakeBinop("Or")

\* b = MVar(n); print(b)
MakeVar ==
    \E n \in Names :
        \E o \in {MVar(a, n)} :
            /\ out' = MakeShown(o)
            /\ IF o.exc = NoExc THEN b' = o.ret ELSE UNCHANGED b
            /\ UNCHANGED a

\* print(MConst(v) & x), print(x & MConst(v))
MakeConstAnd ==
    \E x \in MakeOperands, v \in BOOLEAN, swap \in BOOLEAN :
        /\ x = "held" => b # None
        /\ \E c \in {MConst(a, v)}, e \in {MakeOperand(a, b, x)} :
            \E o \in {IF swap THEN Make_binop(e, c, "And") ELSE Make_binop(c, e, "And")} :
                /\ out' = MakeShown(o)
                /\ UNCHANGED <<a, b>>

NextMake == MakeVar \/ MakeAnd \/ MakeOr \/ MakeConstAnd

SpecMake == InitMake /\ [][NextMake]_vars

\* the variables of a conjunction of Make variables
RECURSIVE MakeVars(_)
MakeVars(e) ==
    IF e.type = "and" THEN MakeVars(e.left) \cup MakeVars(e.right) ELSE {e.name}

RECURSIVE IsConjOfVars(_)
IsConjOfVars(e) ==
    \/ e.type = "name"
    \/ e.type = "and" /\ IsConjOfVars(e.left) /\ IsConjOfVars(e.right)

\* the sequences that list every element of S exactly once
ListingsOf(S) ==
    {s \in [1..Cardinality(S) -> S] : \A i, j \in 1..Cardinality(S) : s[i] = s[j] => i = j}

\* the texts $(and v1,...,vn) that list every variable of S exactly once,
\* and $(v) for a single variable
AndTexts(S) ==
    IF Cardinality(S) = 1 THEN {"$(" \o n \o ")" : n \in S}
    ELSE {"$(and " \o join(",", [i \in 1..Cardinality(S) |-> "$(" \o s[i] \o ")"]) \o ")" :
            s \in ListingsOf(S)}

\* C21 - Make serialization of conjunction: the conjunction of two Make
\* variables, and of the conjunction the client holds with one more
\* variable, prints as one flattened call $(and v1,...,vn) that lists each
\* variable exactly once; True & X prints as $(X).
C21_MakeConjunction ==
    \A n \in Names :
        /\ \E o \in {MakeShown(Make_binop(MConst(a, TRUE), MVar(a, n), "And"))} :
            o = [exc |-> NoExc, returned |-> TRUE, text |-> "$(" \o n \o ")"]
        /\ \A m \in Names \ {n} :
            \E o \in {MakeShown(Make_binop(MVar(a, m), MVar(a, n), "And"))} :
                /\ o.exc = NoExc /\ o.returned
                /\ o.text \in AndTexts({m, n})
        /\ (b # None /\ IsConjOfVars(b)) =>
            \E o \in {MakeShown(Make_binop(Return(b, <<>>), MVar(a, n), "And"))} :
                /\ o.exc = NoExc /\ o.returned
                /\ o.text \in AndTexts(MakeVars(b) \cup {n})

\* C22 - Dispatch order: every binary operator applies its checks in the
\* order (1) dialect mismatch, (2) Null short-circuit, (3) unbound operator,
\* (4) op_cls(simplify(lhs), simplify(rhs)).simplify(): operands of two
\* dialects raise the mismatch error even when one is Null, a Null operand
\* short-circuits even when the operator is unbound, and an unbound
\* operator raises before any operand is simplified.
C22_DispatchOrder ==
    \A l \in Held, r \in Held, op \in BinOps :
        \E o \in {_dispatch_binop(l, r, op)} :
            IF resolve_language(l) # resolve_language(r)
            THEN o.exc = ErrDifferentLanguage /\ o.ret = None
                 /\ o.trace = <<"_check_same_ops">>
            ELSE IF Language(l.lang).types.Null /\ (isNull(l) \/ isNull(r))
            THEN /\ o.exc = NoExc
                 /\ o.ret = IF isNull(l) /\ isNull(r) THEN VarNull(l.lang)
                            ELSE IF isNull(l) THEN simplify(r) ELSE simplify(l)
                 /\ \A i \in 1..Len(o.trace) : o.trace[i] # "op_cls"
            ELSE IF ~Language(l.lang).ops[op]
            THEN /\ o.exc = ErrNoOperator /\ o.ret = None
                 /\ \A i \in 1..Len(o.trace) : o.trace[i] \notin SimplifyCalls
            ELSE /\ o.exc = NoExc
                 /\ o.ret = simplify(VarBinaryOp(OpType(op), l.lang, simplify(l), simplify(r)))
                 /\ o.trace = <<"_check_same_ops", "lhs.simplify", "rhs.simplify",
                                "op_cls", "simplify">>

\* an operator was just applied to Null and a compound expression of the
\* other dialect, and raised the mismatch error
C22_Witness ==
    /\ isNull(a) /\ IsCompound(b)
    /\ resolve_language(a) # resolve_language(b)
    /\ out.exc = ErrDifferentLanguage /\ ~out.returned
    /\ out.trace = <<"_check_same_ops">>

(***************************************************************************)
(* Properties of the rebuilt chains.                                       *)
(***************************************************************************)
\* the terms of the chain of t nodes e, in the order of the chain
ChainTerms(t, e) == walk(t, e)

\* a left-associated chain of t nodes: no right operand is a t node
RECURSIVE IsLeftChain(_, _)
IsLeftChain(t, e) ==
    e.type = t => (e.right.type # t /\ IsLeftChain(t, e.left))

\* the canonical form of a result of type t, whose empty value is unit
IsCanonicalChain(t, e) ==
    LET terms == ChainTerms(t, e)
    IN  /\ IsLeftChain(t, e)
        /\ \A i \in 1..Len(terms) :
            /\ terms[i].type # t
            /\ ~(terms[i].type = "bool" /\ terms[i].value = (t = "and"))
        /\ \A i \in 1..(Len(terms) - 1) : KeyLess(key(terms[i]), key(terms[i + 1]))

\* C23 - Canonical rebuild: whenever the result of l & r is still an And
\* node, it is a left-associated chain whose flattened terms are pairwise
\* distinct by key, in ascending key order, with no True constant and no
\* And among them (dually for | with Or and False); rebuild_sorted returns
\* the empty value for no terms and the term itself for a single term.
C23_CanonicalRebuild ==
    \A l \in Held, r \in Held :
        /\ __and__(l, r).type = "and" => IsCanonicalChain("and", __and__(l, r))
        /\ __or__(l, r).type = "or" => IsCanonicalChain("or", __or__(l, r))
        /\ rebuild_sorted(<<>>, true(l.lang), "and") = true(l.lang)
        /\ rebuild_sorted(<<>>, false(l.lang), "or") = false(l.lang)
        /\ rebuild_sorted(<<l>>, true(l.lang), "and") = l
        /\ rebuild_sorted(<<l>>, false(l.lang), "or") = l

__sub__(self, other) == _dispatch_binop(self, other, "Sub").ret
__truediv__(self, other) == _dispatch_binop(self, other, "Div").ret

\* C24 - Subtraction: for every expression X, X - X is Int(0) and X - Int(0)
\* is simplify(X); Int(i) - Int(j) is Int(i - j); and for any other
\* operands X - Y has the key of X + (Int(-1) * Y).
C24_Subtraction ==
    \A x \in Held, y \in Held :
        /\ __sub__(x, x) = VarInt(x.lang, 0)
        /\ __sub__(x, VarInt(x.lang, 0)) = simplify(x)
        /\ (x.type = "int" /\ y.type = "int") =>
              __sub__(x, y) = VarInt(x.lang, x.value - y.value)
        /\ (/\ key(x) # key(y)
            /\ y # VarInt(y.lang, 0)
            /\ ~(x.type = "int" /\ y.type = "int")) =>
              key(__sub__(x, y)) = key(__add__(x, __mul__(VarInt(y.lang, 0 - 1), y)))

\* C25 - Multiplication: for every expression X and all integers i, j:
\* Int(0) * X and X * Int(0) are Int(0); Int(1) * X and X * Int(1) are
\* simplify(X); Int(i) * Int(j) is Int(i * j); and Int(i) * (Int(j) * X) has
\* the key of Int(i * j) * X, a product that is still a Mul node being a
\* left-folded chain in which only the first factor can be an Int constant.
C25_Multiplication ==
    \A x \in Held :
        /\ __mul__(VarInt(x.lang, 0), x) = VarInt(x.lang, 0)
        /\ __mul__(x, VarInt(x.lang, 0)) = VarInt(x.lang, 0)
        /\ __mul__(VarInt(x.lang, 1), x) = simplify(x)
        /\ __mul__(x, VarInt(x.lang, 1)) = simplify(x)
        /\ \A i \in IntLiterals, j \in IntLiterals :
            /\ __mul__(VarInt(x.lang, i), VarInt(x.lang, j)) = VarInt(x.lang, i * j)
            /\ \E p \in {__mul__(VarInt(x.lang, i), __mul__(VarInt(x.lang, j), x))} :
                /\ key(p) = key(__mul__(VarInt(x.lang, i * j), x))
                /\ p.type = "mul" =>
                      /\ IsLeftChain("mul", p)
                      /\ \A k \in 2..Len(walk("mul", p)) : walk("mul", p)[k].type # "int"

(***************************************************************************)
(* Properties of the division.  The cases are told apart on the operands   *)
(* of the Div node the operator builds, simplify(x) and simplify(y).       *)
(***************************************************************************)
\* Int(i) / Int(j) with j # 0
DivFoldCase(l, r) == l.type = "int" /\ r.type = "int" /\ r.value # 0

\* X / Int(1)
DivOneCase(l, r) == r.type = "int" /\ r.value = 1

\* (Int(c) * X) / Int(d) with d # 0 dividing c
DivReduceCase(l, r) ==
    /\ l.type = "mul" /\ r.type = "int" /\ r.value # 0
    /\ \/ l.left.type = "int" /\ Rem(l.left.value, r.value) = 0
       \/ l.right.type = "int" /\ Rem(l.right.value, r.value) = 0

\* Int(c / d) * X for the product l = Int(c) * X and the divisor r = Int(d)
DivReduced(l, r) ==
    IF l.left.type = "int" /\ Rem(l.left.value, r.value) = 0
    THEN __mul__(VarInt(l.lang, FloorDiv(l.left.value, r.value)), l.right)
    ELSE __mul__(VarInt(l.lang, FloorDiv(l.right.value, r.value)), l.left)

\* the statements of C26 for the quotient q of the operands l and r, the
\* listed cases in the order of the claim
DivAsClaimed(l, r, q) ==
    IF DivFoldCase(l, r) THEN q = VarInt(l.lang, FloorDiv(l.value, r.value))
    ELSE IF DivOneCase(l, r) THEN q = l
    ELSE IF DivReduceCase(l, r) THEN q = DivReduced(l, r)
    ELSE q = VarDiv(l.lang, l, r)

DivAsAmended(l, r, q) ==
    IF DivFoldCase(l, r) THEN q = VarInt(l.lang, FloorDiv(l.value, r.value))
    ELSE IF DivOneCase(l, r) THEN q = l
    ELSE IF l = VarInt(l.lang, 0) THEN q = VarInt(l.lang, 0)
    ELSE IF DivReduceCase(l, r) THEN q = DivReduced(l, r)
    ELSE (l.type # "bool" /\ r.type # "bool") => q = VarDiv(l.lang, l, r)

C28_DivByZero ==
    \A x \in Held \cup {VarInt("A", i) : i \in IntLiterals} :
        /\ __truediv__(x, VarInt("A", 0)).type = "div"
        /\ __truediv__(x, VarInt("A", 0)).right = VarInt("A", 0)

\* x and y have different keys and neither is the negation of the other
Unrelated(x, y) ==
    /\ key(x) # key(y)
    /\ key(Invert(x)) # key(y)
    /\ key(Invert(y)) # key(x)

\* C27 - Negated absorption: for X and Y with different keys that are not
\* negations of each other, X & (~X | Y) has the key of X & Y and
\* (~X) & (X | Y) the key of (~X) & Y; dually, X | (~X & Y) has the key of
\* X | Y and (~X) | (X & Y) the key of (~X) | Y.
C27_NegatedAbsorption ==
    \A x \in Held, y \in Held :
        Unrelated(x, y) =>
            /\ key(__and__(x, __or__(Invert(x), y))) = key(__and__(x, y))
            /\ key(__and__(Invert(x), __or__(x, y))) = key(__and__(Invert(x), y))
            /\ key(__or__(x, __and__(Invert(x), y))) = key(__or__(x, y))
            /\ key(__or__(Invert(x), __and__(x, y))) = key(__or__(Invert(x), y))

\* the child of every Not node of the tree is a Name
RECURSIVE NotOnlyOnNames(_)
NotOnlyOnNames(e) ==
    CASE e.type = "not" -> e.child.type = "name"
      [] IsBinary(e) -> NotOnlyOnNames(e.left) /\ NotOnlyOnNames(e.right)
      [] OTHER -> TRUE

\* C29 - Negation normal form: in every expression built by &, | and ~ from
\* the Names and Bool constants of one dialect, the child of every Not node
\* is a Name.
C29_NegationNormalForm == \A e \in Held : NotOnlyOnNames(e)

\* ~ was applied to the conjunction b and gave the disjunction a, with a
\* negated name as a term
C29_Witness ==
    /\ out.returned /\ out.trace = <<"simplify", "not_cls", "simplify">>
    /\ b.type = "and" /\ a.type = "or"
    /\ a = Invert(b)
    /\ a.left.type = "not" \/ a.right.type = "not"

\* the tree has a Bool constant at some depth
RECURSIVE HasBool(_)
HasBool(e) ==
    CASE e.type = "bool" -> TRUE
      [] IsUnary(e) -> HasBool(e.child)
      [] IsBinary(e) -> HasBool(e.left) \/ HasBool(e.right)
      [] OTHER -> FALSE

\* C30 - Constant elimination: every expression built by &, | and ~ from
\* the Names and Bool constants of one dialect is a single Bool constant or
\* has no Bool constant at any depth.
C30_ConstantElimination == \A e \in Held : e.type = "bool" \/ ~HasBool(e)

\* an operator has run, a is a compound expression and b the constant True:
\* the operators on a and b return a or a constant
C30_Witness ==
    /\ out.returned
    /\ IsCompound(a) /\ ~HasBool(a)
    /\ b = true("K")
    /\ __and__(a, b) = a /\ __or__(a, b) = b
    /\ __and__(a, Invert(b)) = false("K") /\ __or__(a, Invert(b)) = a
====
